---- MODULE Spec2Model ----
(***************************************************************************)
(* Availability engine of the AI call center (GET /api/availability):      *)
(* configuration resolution, the two busy-interval fetches, day bucketing  *)
(* and the slot generation loops, over the meetings file and the Notion    *)
(* calendar.                                                               *)
(*                                                                         *)
(* Instants (Date) are whole minutes since the epoch, in UTC.  A local     *)
(* calendar day is the instant shifted by the zone offset and divided by   *)
(* the minutes of a day (a fixed-offset zone: no daylight-saving change).  *)
(* A JavaScript number is an integer or NaN; an Invalid Date is a Date     *)
(* whose time value is NaN.                                                *)
(***************************************************************************)
EXTENDS Integers, Sequences, FiniteSets, TLC

----------------------------------------------------------------------------
(* JavaScript numbers *)

\* NaN (and the time value of an Invalid Date): an integer no computation of
\* the model reaches by arithmetic on real values.
NaN == 0 - 1000000000

\* null, as returned by toDate
Null == NaN - 1

IsNaN(x) == x = NaN

\* relational operators: every comparison with NaN is false
Lt(a, b) == a # NaN /\ b # NaN /\ a < b
Le(a, b) == a # NaN /\ b # NaN /\ a <= b
Gt(a, b) == a # NaN /\ b # NaN /\ a > b
Ge(a, b) == a # NaN /\ b # NaN /\ a >= b

\* a + b
Plus(a, b) == IF a = NaN \/ b = NaN THEN NaN ELSE a + b

\* a || b on numbers: 0 and NaN are falsy
OrElse(a, b) == IF a = 0 \/ a = NaN THEN b ELSE a

MathMax(a, b) == IF a >= b THEN a ELSE b
MathMin(a, b) == IF a <= b THEN a ELSE b

----------------------------------------------------------------------------
(* Strings that carry numbers: query parameters and environment variables *)

\* a string that is absent (null / undefined), not numeric, or a numeral
Absent == [k |-> "absent", n |-> 0]
Text == [k |-> "text", n |-> 0]
Num(n) == [k |-> "num", n |-> n]

\* Number(searchParams.get(name)): Number(null) is 0, Number("abc") is NaN
ToNumber(raw) ==
  IF raw.k = "absent" THEN 0
  ELSE IF raw.k = "text" THEN NaN
  ELSE raw.n

\* Number(process.env.X ?? fallback)
EnvNumber(raw, fallback) ==
  IF raw.k = "absent" THEN fallback
  ELSE IF raw.k = "text" THEN NaN
  ELSE raw.n

DEFAULT_WORK_START_HOUR(env) == EnvNumber(env.AVAILABILITY_START_HOUR, 8)
DEFAULT_WORK_END_HOUR(env) == EnvNumber(env.AVAILABILITY_END_HOUR, 21)
DEFAULT_SLOT_MINUTES(env) == EnvNumber(env.AVAILABILITY_SLOT_MINUTES, 30)
DEFAULT_DURATION_MINUTES(env) == EnvNumber(env.AVAILABILITY_DURATION_MINUTES, 30)
DEFAULT_HORIZON_DAYS(env) == EnvNumber(env.AVAILABILITY_HORIZON_DAYS, 7)
DEFAULT_LIMIT(env) == EnvNumber(env.AVAILABILITY_MAX_SLOTS, 20)
DEFAULT_MIN_LEAD_MINUTES(env) == EnvNumber(env.AVAILABILITY_LEAD_TIME_MINUTES, 60)

clampNumber(value, min, max, fallback) ==
  IF IsNaN(value) THEN fallback
  ELSE MathMin(MathMax(value, min), max)

\* the resolved configuration of one request (route.ts 107-139)
ResolveConfig(q, env) ==
  [durationMinutes |->
     clampNumber(OrElse(ToNumber(q.durationMinutes), DEFAULT_DURATION_MINUTES(env)),
                 15, 240, DEFAULT_DURATION_MINUTES(env)),
   slotMinutes |->
     clampNumber(OrElse(ToNumber(q.slotMinutes), DEFAULT_SLOT_MINUTES(env)),
                 5, 120, DEFAULT_SLOT_MINUTES(env)),
   horizonDays |->
     clampNumber(OrElse(ToNumber(q.days), DEFAULT_HORIZON_DAYS(env)),
                 1, 30, DEFAULT_HORIZON_DAYS(env)),
   slotLimit |->
     clampNumber(OrElse(ToNumber(q.limit), DEFAULT_LIMIT(env)),
                 1, 200, DEFAULT_LIMIT(env)),
   minLeadMinutes |->
     clampNumber(OrElse(ToNumber(q.leadTimeMinutes), DEFAULT_MIN_LEAD_MINUTES(env)),
                 0, 24 * 60, DEFAULT_MIN_LEAD_MINUTES(env)),
   workStartHour |-> DEFAULT_WORK_START_HOUR(env),
   workEndHour |-> DEFAULT_WORK_END_HOUR(env)]

----------------------------------------------------------------------------
(* Dates *)

MinutesPerDay == 24 * 60

\* an ISO-8601 string in UTC (calendar day and minute of that day), a string
\* that is no date, or a missing value
Iso(d, m) == [k |-> "iso", d |-> d, m |-> m]
NoDate == [k |-> "text", d |-> 0, m |-> 0]
Missing == [k |-> "none", d |-> 0, m |-> 0]

\* Date.prototype.toISOString of a valid date
toISOString(t) == Iso(t \div MinutesPerDay, t % MinutesPerDay)

\* new Date(iso).getTime()
DateParse(s) == IF s.k = "iso" THEN s.d * MinutesPerDay + s.m ELSE NaN

toDate(iso) ==
  IF iso.k = "none" THEN Null
  ELSE IF IsNaN(DateParse(iso)) THEN Null
  ELSE DateParse(iso)

addMinutes(date, minutes) == Plus(date, minutes)

\* the local calendar day of an instant, which the yyyy-mm-dd key names
dayKey(date, tz) == (date + tz) \div MinutesPerDay

\* startOfDay without the setDate: every offset gives the day of base
startOfDaySameDay(base, offsetDays, tz) == dayKey(base, tz) * MinutesPerDay - tz

\* local midnight of the day of base, offsetDays later
startOfDay(base, offsetDays, tz) ==
  (dayKey(base, tz) + offsetDays) * MinutesPerDay - tz

\* copy.setHours(h, 0, 0, 0) on a copy of the local midnight dayStart
setHours(dayStart, h) == IF IsNaN(h) THEN NaN ELSE dayStart + h * 60

----------------------------------------------------------------------------
(* The meeting store (data/meetings.json) and the Notion calendar *)

RECURSIVE InsertSorted(_, _)
\* Array.prototype.sort with (a, b) => a.scheduledAt.localeCompare(b.scheduledAt),
\* stable; SortKey orders the strings as localeCompare does (ISO strings of
\* one format chronologically, a string starting with a letter after them)
SortKey(s) == IF s.k = "iso" THEN DateParse(s) ELSE 0 - Null

InsertSorted(sorted, x) ==
  IF sorted = <<>> THEN <<x>>
  ELSE IF SortKey(sorted[Len(sorted)].scheduledAt) <= SortKey(x.scheduledAt)
       THEN Append(sorted, x)
       ELSE Append(InsertSorted(SubSeq(sorted, 1, Len(sorted) - 1), x),
                   sorted[Len(sorted)])

RECURSIVE SortMeetings(_)
SortMeetings(ms) ==
  IF ms = <<>> THEN <<>>
  ELSE InsertSorted(SortMeetings(SubSeq(ms, 1, Len(ms) - 1)), ms[Len(ms)])

\* leadId: null of a meeting that belongs to no lead
NoLead == ""

\* of the fields sanitizeMeeting defaults, source stands for all: a record
\* without one gets "manual"
sanitizeMeeting(raw) ==
  [scheduledAt |-> raw.scheduledAt, endAt |-> raw.endAt,
   source |-> IF raw.source = "none" THEN "manual" ELSE raw.source,
   leadId |-> raw.leadId]

\* readJson(meetingsPath, { meetings: [] }): the fallback for a file that does
\* not exist, an exception for any other read or parse error
ReadJsonThrows(file, ioError) == ioError \/ file.kind = "corrupt"
ReadJson(file) == IF file.kind = "missing" THEN <<>> ELSE file.meetings

\* the comparator dereferences a.scheduledAt: the sort of V8 passes every
\* element but the first as a, so a record without scheduledAt at a later
\* position raises a TypeError
SortThrows(ms) == \E i \in 2..Len(ms) : ms[i].scheduledAt.k = "none"

listMeetingsThrows(file, ioError) ==
  \/ ReadJsonThrows(file, ioError)
  \/ SortThrows([i \in 1..Len(ReadJson(file)) |-> sanitizeMeeting(ReadJson(file)[i])])

\* the message of what listMeetings throws: of the file system, of JSON.parse,
\* or of the TypeError of the comparator
listMeetingsError(file, ioError) ==
  IF ioError THEN "EACCES: permission denied"
  ELSE IF file.kind = "corrupt" THEN "Unexpected token in JSON"
  ELSE "Cannot read properties of undefined (reading 'localeCompare')"

listMeetings(file) ==
  SortMeetings([i \in 1..Len(ReadJson(file)) |-> sanitizeMeeting(ReadJson(file)[i])])

\* a listMeetings that writes the sanitized records back every time
listMeetingsFileRewrite(file) ==
  [kind |-> "ok",
   meetings |-> [i \in 1..Len(ReadJson(file)) |-> sanitizeMeeting(ReadJson(file)[i])]]

\* the file after listMeetings: rewritten only if sanitizing changed the
\* number of records
listMeetingsFile(file) ==
  LET db == ReadJson(file)
      sanitized == [i \in 1..Len(db) |-> sanitizeMeeting(db[i])]
  IN IF Len(sanitized) # Len(db)
     THEN [kind |-> "ok", meetings |-> sanitized]
     ELSE file

\* the mapping with an end defaulted to start + 30 minutes
ToIntervalHalfHour(startStr, endStr, source) ==
  LET start == toDate(startStr)
      end == IF toDate(endStr) # Null THEN toDate(endStr) ELSE addMinutes(start, 30)
  IN IF start = Null THEN <<>>
     ELSE <<[start |-> start, end |-> end, source |-> source]>>

\* one record of either source to its BusyInterval: none when the start is
\* missing or no date, the end defaulted to start + 60 minutes
ToInterval(startStr, endStr, source) ==
  LET start == toDate(startStr)
      end == IF toDate(endStr) # Null THEN toDate(endStr) ELSE addMinutes(start, 60)
  IN IF start = Null THEN <<>>
     ELSE <<[start |-> start, end |-> end, source |-> source]>>

\* meetings.map(...).filter(Boolean)
RECURSIVE MeetingIntervals(_)
MeetingIntervals(meetings) ==
  IF meetings = <<>> THEN <<>>
  ELSE ToInterval(meetings[1].scheduledAt, meetings[1].endAt, "meeting")
       \o MeetingIntervals(Tail(meetings))

\* result.events.map(...).filter(Boolean)
RECURSIVE NotionIntervals(_)
NotionIntervals(events) ==
  IF events = <<>> THEN <<>>
  ELSE ToInterval(events[1].start, events[1].endAt, "notion")
       \o NotionIntervals(Tail(events))

\* fetchNotionEvents: pages without a date start are left out
RECURSIVE fetchNotionEvents(_)
fetchNotionEvents(pages) ==
  IF pages = <<>> THEN <<>>
  ELSE IF pages[1].start.k = "none" THEN fetchNotionEvents(Tail(pages))
       ELSE <<[start |-> pages[1].start, endAt |-> pages[1].endAt]>>
            \o fetchNotionEvents(Tail(pages))

\* ensureEnv throws without NOTION_API_KEY / NOTION_CALENDAR_DATABASE_ID at the
\* time of the call ("config"); the query throws on a network or
\* authorization error ("network")
fetchNotionEventsThrows(failure) == failure # "none"

\* the intersection test on closed ranges: touching end points count
overlapsClosed(slotStart, slotEnd, intervals) ==
  \E i \in 1..Len(intervals) :
    Le(slotStart, intervals[i].end) /\ Ge(slotEnd, intervals[i].start)

overlaps(slotStart, slotEnd, intervals) ==
  \E i \in 1..Len(intervals) :
    Lt(slotStart, intervals[i].end) /\ Gt(slotEnd, intervals[i].start)

\* intervalsByDay: the intervals grouped by the day key of their start, each
\* bucket in the order of the flat collection
RECURSIVE BucketOf(_, _, _)
BucketOf(ivs, key, tz) ==
  IF ivs = <<>> THEN <<>>
  ELSE IF dayKey(ivs[1].start, tz) = key
       THEN <<ivs[1]>> \o BucketOf(Tail(ivs), key, tz)
       ELSE BucketOf(Tail(ivs), key, tz)

BuildIntervalsByDay(ivs, tz) ==
  [key \in {dayKey(ivs[i].start, tz) : i \in 1..Len(ivs)} |-> BucketOf(ivs, key, tz)]

\* a lookup that gives the first interval of the bucket only
GetBucketFirst(byDay, key) == IF key \in DOMAIN byDay THEN <<byDay[key][1]>> ELSE <<>>

\* intervalsByDay.get(key) ?? []
GetBucket(byDay, key) == IF key \in DOMAIN byDay THEN byDay[key] ELSE <<>>

----------------------------------------------------------------------------
(* State *)

VARIABLES
  env,              \* process.env as read when the module is loaded, and the zone
  query,            \* the searchParams of the request
  meetingsFile,     \* data/meetings.json
  notionPages,      \* the pages of the Notion calendar database
  pc,               \* position of the request in GET
  now,              \* const now = new Date()
  cfg,              \* the resolved parameters and work hours
  meetingsP,        \* the promise of the meeting branch of buildBusyIntervals
  notionP,          \* the promise of the Notion branch
  intervalsByDay,   \* the day index
  dayOffset,        \* the day loop variable
  cursor,           \* the cursor loop variable
  slots,            \* const slots: Slot[]
  response,         \* what GET returned
  errorLog,         \* what console.error has written for this request
  readFailed,       \* the read of the meetings file threw in this request
  fetchFailed       \* the Notion fetch threw in this request

VARIABLES
  placesDb,         \* data/places-db.json
  callsStore,       \* data/calls.json
  reply,            \* what the last POST or PATCH handler returned
  clock,            \* the wall clock read by the writing handlers
  leads,            \* the leads prop of useCallQueue
  queue,            \* const [queue, setQueue]
  activeIndex,      \* const [activeIndex, setActiveIndex]
  isRunning,        \* const [isRunning, setIsRunning]
  inflight,         \* the call requests sent and not yet answered
  timers,           \* the advanceToNext callbacks that setTimeout holds
  userSteps         \* how many times the component has acted on the hook

\* the state of GET /api/availability
engineVars == <<env, query, meetingsFile, notionPages, pc, now, cfg, meetingsP, notionP,
                intervalsByDay, dayOffset, cursor, slots, response, errorLog,
                readFailed, fetchFailed>>

\* the lead stores and the handlers that write them
leadVars == <<placesDb, callsStore, reply, clock>>

\* the client call queue
hookVars == <<leads, queue, activeIndex, isRunning, inflight, timers, userSteps>>

vars == <<engineVars, leadVars, hookVars>>

\* NextResponse.json of the handlers that write a store; status 0 before any
Reply(status, message) == [status |-> status, error |-> message]

\* no lead store, no call record, no handler has answered
LeadsIdle ==
  /\ placesDb = [kind |-> "missing", places |-> <<>>]
  /\ callsStore = [kind |-> "missing", calls |-> <<>>]
  /\ reply = Reply(0, "")
  /\ clock = 0

\* the hook is not mounted
HookIdle ==
  /\ leads = <<>>
  /\ queue = <<>>
  /\ activeIndex = Null
  /\ isRunning = FALSE
  /\ inflight = <<>>
  /\ timers = <<>>
  /\ userSteps = 0

Pending == [state |-> "pending", value |-> <<>>]
Fulfilled(v) == [state |-> "fulfilled", value |-> v]
Rejected == [state |-> "rejected", value |-> <<>>]
NotStarted == [state |-> "none", value |-> <<>>]

NoResponse ==
  [status |-> 0, error |-> "", hasSlots |-> FALSE, slots |-> <<>>,
   generatedAt |-> NaN, horizonDays |-> NaN, slotMinutes |-> NaN,
   durationMinutes |-> NaN]

\* NextResponse.json({ error }, { status: 500 })
ErrorResponse(message) == [NoResponse EXCEPT !.status = 500, !.error = message]

\* NextResponse.json({ generatedAt, horizonDays, slotMinutes, durationMinutes, slots })
SlotsResponse(t, c, ss) ==
  [status |-> 200, error |-> "", hasSlots |-> TRUE, slots |-> ss,
   generatedAt |-> t, horizonDays |-> c.horizonDays,
   slotMinutes |-> c.slotMinutes, durationMinutes |-> c.durationMinutes]

\* the windows of day offsetDays of a request read at instant t
DayStartOf(t, offsetDays, tz) == startOfDay(t, offsetDays, tz)
WorkStartOf(t, offsetDays, c, tz) == setHours(DayStartOf(t, offsetDays, tz), c.workStartHour)
WorkEndOf(t, offsetDays, c, tz) == setHours(DayStartOf(t, offsetDays, tz), c.workEndHour)
\* 23:59:59.999 of the day, as its last whole minute: against an instant x of
\* whole minutes, dayEnd <= x is DayEndMinuteOf < x
DayEndMinuteOf(t, offsetDays, tz) == DayStartOf(t, offsetDays, tz) + MinutesPerDay - 1

EarliestOf(t, c) == addMinutes(t, c.minLeadMinutes)

\* workEndHour <= workStartHour
InvalidHours(c) == Le(c.workEndHour, c.workStartHour)

\* dayOffset < horizonDays && slots.length < slotLimit
DayLoopHeadOf(d, ss, c) == Lt(d, c.horizonDays) /\ Lt(Len(ss), c.slotLimit)

\* a skip of every day whose work window has begun by earliestAllowedStart
SkipDayWorkStart(t, d, c, tz) == Le(WorkStartOf(t, d, c, tz), EarliestOf(t, c))

\* workEnd <= earliestAllowedStart && dayEnd <= earliestAllowedStart
SkipDayOf(t, d, c, tz) ==
  /\ Le(WorkEndOf(t, d, c, tz), EarliestOf(t, c))
  /\ Lt(DayEndMinuteOf(t, d, tz), EarliestOf(t, c))

\* the head of the cursor loop without the test of slots.length
CursorLoopHeadNoLimit(cur, we, ss, c) == Lt(cur, we)

\* cursor < workEnd && slots.length < slotLimit
CursorLoopHeadOf(cur, we, ss, c) == Lt(cur, we) /\ Lt(Len(ss), c.slotLimit)

\* the end of the candidate taken one cursor step after its start
SlotEndBySlotMinutes(slotStart, c) == addMinutes(slotStart, c.slotMinutes)

\* const slotEnd = addMinutes(slotStart, durationMinutes)
SlotEndOf(slotStart, c) == addMinutes(slotStart, c.durationMinutes)

\* the test of the work end made on the start of the candidate
PastWorkEndByStart(slotStart, slotEnd, we) == Gt(slotStart, we)

\* slotEnd > workEnd
PastWorkEnd(slotStart, slotEnd, we) == Gt(slotEnd, we)

\* slotStart < earliestAllowedStart
TooEarly(slotStart, earliest) == Lt(slotStart, earliest)

\* a cursor that is not advanced
NextCursorStuck(cur, c) == cur

\* cursor = addMinutes(cursor, slotMinutes)
NextCursor(cur, c) == addMinutes(cur, c.slotMinutes)

\* { start: slotStart.toISOString(), end: slotEnd.toISOString(), durationMinutes }
MakeSlot(slotStart, slotEnd, c) ==
  [start |-> toISOString(slotStart), end |-> toISOString(slotEnd),
   durationMinutes |-> c.durationMinutes]

\* a meeting branch that catches and returns [] as the Notion branch does
MeetingsBranchCaught(file, ioError) ==
  IF listMeetingsThrows(file, ioError) THEN Fulfilled(<<>>)
  ELSE Fulfilled(MeetingIntervals(listMeetings(file)))

\* the meeting branch of buildBusyIntervals: no catch of its own
MeetingsBranch(file, ioError) ==
  IF listMeetingsThrows(file, ioError) THEN Rejected
  ELSE Fulfilled(MeetingIntervals(listMeetings(file)))

\* a Notion branch without its try / catch
NotionBranchNoCatch(failure, pages) ==
  IF fetchNotionEventsThrows(failure) THEN Rejected
  ELSE Fulfilled(NotionIntervals(fetchNotionEvents(pages)))

\* the Notion branch of buildBusyIntervals: its catch returns []
NotionBranch(failure, pages) ==
  IF fetchNotionEventsThrows(failure) THEN Fulfilled(<<>>)
  ELSE Fulfilled(NotionIntervals(fetchNotionEvents(pages)))

\* a join that waits for the meeting branch only
PromiseFirst(m, n) ==
  IF m.state = "rejected" \/ n.state = "rejected" THEN "rejected"
  ELSE IF m.state = "fulfilled" THEN "fulfilled"
  ELSE "pending"

\* the state of Promise.all([meetings, notion])
PromiseAll(m, n) ==
  IF m.state = "rejected" \/ n.state = "rejected" THEN "rejected"
  ELSE IF m.state = "fulfilled" /\ n.state = "fulfilled" THEN "fulfilled"
  ELSE "pending"

earliestAllowedStart == EarliestOf(now, cfg)
dayStart == DayStartOf(now, dayOffset, env.tz)
workStart == WorkStartOf(now, dayOffset, cfg, env.tz)
workEnd == WorkEndOf(now, dayOffset, cfg, env.tz)

----------------------------------------------------------------------------
(* Inputs *)

\* the instant of day d, h hours m minutes, UTC
At(d, h, m) == (d * 24 + h) * 60 + m

\* minutes east of UTC of the server's zone
TimeZones == {2 * 60}

\* most records the meetings file holds, most pages the calendar holds
MaxMeetings == 1
MaxEvents == 1

\* the instants at which a request arrives: 09:30 and 23:30 local time of
\* day 1
Nows == {At(1, 7, 30), At(1, 21, 30)}

\* meetings: 10:00-10:30 of day 1; 23:00 of day 1 to 09:00 of day 2; a start
\* that is no date, in a record without source
MeetingRecords ==
  {[scheduledAt |-> Iso(1, 8 * 60), endAt |-> Iso(1, 8 * 60 + 30), source |-> "vapi",
    leadId |-> NoLead],
   [scheduledAt |-> Iso(1, 21 * 60), endAt |-> Iso(2, 7 * 60), source |-> "manual",
    leadId |-> NoLead],
   [scheduledAt |-> NoDate, endAt |-> Missing, source |-> "none",
    leadId |-> NoLead]}

\* calendar pages: 08:30-09:30 of day 2 (no end given); a page without a date
NotionPageRecords ==
  {[start |-> Iso(2, 6 * 60 + 30), endAt |-> Missing],
   [start |-> Missing, endAt |-> Missing]}

SeqsUpTo(S, n) == UNION {[1..k -> S] : k \in 0..n}

MeetingFiles ==
  {[kind |-> "missing", meetings |-> <<>>], [kind |-> "corrupt", meetings |-> <<>>]}
  \cup {[kind |-> "ok", meetings |-> ms] : ms \in SeqsUpTo(MeetingRecords, MaxMeetings)}

EnvUnset ==
  [AVAILABILITY_START_HOUR |-> Absent, AVAILABILITY_END_HOUR |-> Absent,
   AVAILABILITY_SLOT_MINUTES |-> Absent, AVAILABILITY_DURATION_MINUTES |-> Absent,
   AVAILABILITY_HORIZON_DAYS |-> Absent, AVAILABILITY_MAX_SLOTS |-> Absent,
   AVAILABILITY_LEAD_TIME_MINUTES |-> Absent,
   tz |-> 0]

\* the environments of the full engine: nothing set; work hours 9 to 8, 9 to
\* 9, 18 to 24 and an end hour that is no number; one numeric default that
\* is no number
Envs ==
  {[e EXCEPT !.tz = z] : z \in TimeZones, e \in
    {EnvUnset,
     [EnvUnset EXCEPT !.AVAILABILITY_START_HOUR = Num(9), !.AVAILABILITY_END_HOUR = Num(8)],
     [EnvUnset EXCEPT !.AVAILABILITY_START_HOUR = Num(9), !.AVAILABILITY_END_HOUR = Num(9)],
     [EnvUnset EXCEPT !.AVAILABILITY_START_HOUR = Num(18), !.AVAILABILITY_END_HOUR = Num(24)],
     [EnvUnset EXCEPT !.AVAILABILITY_END_HOUR = Text],
     [EnvUnset EXCEPT !.AVAILABILITY_SLOT_MINUTES = Text],
     [EnvUnset EXCEPT !.AVAILABILITY_DURATION_MINUTES = Text],
     [EnvUnset EXCEPT !.AVAILABILITY_HORIZON_DAYS = Text],
     [EnvUnset EXCEPT !.AVAILABILITY_MAX_SLOTS = Text],
     [EnvUnset EXCEPT !.AVAILABILITY_LEAD_TIME_MINUTES = Text]}}

NoQuery ==
  [durationMinutes |-> Absent, slotMinutes |-> Absent, days |-> Absent,
   limit |-> Absent, leadTimeMinutes |-> Absent]

\* the query strings of the full engine
Queries ==
  [durationMinutes : {Absent, Num(45)},
   slotMinutes : {Absent},
   days : {Absent},
   limit : {Absent, Num(2)},
   leadTimeMinutes : {Absent, Num(0 - 1)}]

----------------------------------------------------------------------------
(* GET /api/availability *)

Init ==
  /\ env \in Envs
  /\ meetingsFile \in MeetingFiles
  /\ notionPages \in SeqsUpTo(NotionPageRecords, MaxEvents)
  /\ query = NoQuery
  /\ pc = "idle"
  /\ now = 0
  /\ cfg = ResolveConfig(NoQuery, env)
  /\ meetingsP = NotStarted
  /\ notionP = NotStarted
  /\ intervalsByDay = <<>>
  /\ dayOffset = 0
  /\ cursor = 0
  /\ slots = <<>>
  /\ response = NoResponse
  /\ errorLog = {}
  /\ readFailed = FALSE
  /\ fetchFailed = FALSE
  /\ LeadsIdle /\ HookIdle

\* a request arrives: now is read, the parameters are resolved, the work hours
\* are validated and buildBusyIntervals starts both fetches (102-148)
Receive(q, t) ==
  /\ pc \in {"idle", "done"}
  /\ t >= now
  /\ now' = t
  /\ query' = q
  /\ cfg' = ResolveConfig(q, env)
  /\ intervalsByDay' = <<>>
  /\ dayOffset' = 0
  /\ cursor' = 0
  /\ slots' = <<>>
  /\ errorLog' = {}
  /\ readFailed' = FALSE
  /\ fetchFailed' = FALSE
  /\ IF InvalidHours(cfg')
     THEN /\ response' = ErrorResponse("Invalid availability hours configuration")
          /\ pc' = "done"
          /\ meetingsP' = NotStarted
          /\ notionP' = NotStarted
     ELSE /\ response' = NoResponse
          /\ pc' = "fetching"
          /\ meetingsP' = Pending
          /\ notionP' = Pending
  /\ UNCHANGED <<env, meetingsFile, notionPages>>
  /\ UNCHANGED <<leadVars, hookVars>>

\* the await of GET on a Promise.all that a branch has just rejected: the
\* catch of GET answers (209-213)
Catch(all, message) ==
  IF pc = "fetching" /\ all = "rejected"
  THEN /\ response' = ErrorResponse(message)
       /\ errorLog' = errorLog \cup {"Availability error"}
       /\ pc' = "done"
  ELSE UNCHANGED <<response, errorLog, pc>>

\* the meeting branch settles: listMeetings and the mapping to intervals
MeetingsSettle(ioError) ==
  /\ pc = "fetching"
  /\ meetingsP.state = "pending"
  /\ meetingsP' = MeetingsBranch(meetingsFile, ioError)
  /\ readFailed' = listMeetingsThrows(meetingsFile, ioError)
  /\ meetingsFile' = IF listMeetingsThrows(meetingsFile, ioError) THEN meetingsFile
                     ELSE listMeetingsFile(meetingsFile)
  /\ Catch(PromiseAll(meetingsP', notionP), listMeetingsError(meetingsFile, ioError))
  /\ UNCHANGED <<leadVars, hookVars>>
  /\ UNCHANGED <<env, query, notionPages, now, cfg, notionP, intervalsByDay,
                 dayOffset, cursor, slots, fetchFailed>>

\* the Notion branch settles; it may settle after GET has answered from its
\* catch.  Its own catch logs the failure.
NotionSettle(failure) ==
  /\ notionP.state = "pending"
  /\ notionP' = NotionBranch(failure, notionPages)
  /\ fetchFailed' = fetchNotionEventsThrows(failure)
  /\ IF PromiseAll(meetingsP, notionP') = "rejected" /\ pc = "fetching"
     THEN Catch("rejected", "notion fetch failed")
     ELSE /\ errorLog' = IF fetchNotionEventsThrows(failure)
                         THEN errorLog \cup {"Failed to load Notion events"}
                         ELSE errorLog
          /\ UNCHANGED <<response, pc>>
  /\ UNCHANGED <<leadVars, hookVars>>
  /\ UNCHANGED <<env, query, meetingsFile, notionPages, now, cfg, meetingsP,
                 intervalsByDay, dayOffset, cursor, slots, readFailed>>

\* Promise.all has resolved: the two lists are concatenated and bucketed by
\* day (88, 148-161)
Bucket ==
  /\ pc = "fetching"
  /\ PromiseAll(meetingsP, notionP) = "fulfilled"
  /\ intervalsByDay' = BuildIntervalsByDay(meetingsP.value \o notionP.value, env.tz)
  /\ slots' = <<>>
  /\ dayOffset' = 0
  /\ pc' = "dayLoop"
  /\ UNCHANGED <<leadVars, hookVars>>
  /\ UNCHANGED <<env, query, meetingsFile, notionPages, now, cfg, meetingsP, notionP,
                 cursor, response, errorLog, readFailed, fetchFailed>>

\* the head of the day loop holds: the day is skipped or its walk begins (163-179)
DayLoop ==
  /\ pc = "dayLoop"
  /\ DayLoopHeadOf(dayOffset, slots, cfg)
  /\ IF SkipDayOf(now, dayOffset, cfg, env.tz)
     THEN /\ dayOffset' = dayOffset + 1
          /\ UNCHANGED <<cursor, pc>>
     ELSE /\ cursor' = workStart
          /\ pc' = "cursorLoop"
          /\ UNCHANGED dayOffset
  /\ UNCHANGED <<leadVars, hookVars>>
  /\ UNCHANGED <<env, query, meetingsFile, notionPages, now, cfg, meetingsP, notionP,
                 intervalsByDay, slots, response, errorLog, readFailed, fetchFailed>>

\* one pass of the cursor loop (180-199); slotEnd.toISOString() throws a
\* RangeError on an Invalid Date, which the catch of GET answers
CursorLoop ==
  /\ pc = "cursorLoop"
  /\ CursorLoopHeadOf(cursor, workEnd, slots, cfg)
  /\ LET slotStart == cursor
         slotEnd == SlotEndOf(slotStart, cfg)
         bucket == GetBucket(intervalsByDay, dayKey(dayStart, env.tz))
     IN IF PastWorkEnd(slotStart, slotEnd, workEnd)
        THEN /\ dayOffset' = dayOffset + 1
             /\ pc' = "dayLoop"
             /\ UNCHANGED <<cursor, slots, response, errorLog>>
        ELSE IF TooEarly(slotStart, earliestAllowedStart)
                \/ overlaps(slotStart, slotEnd, bucket)
        THEN /\ cursor' = NextCursor(cursor, cfg)
             /\ UNCHANGED <<dayOffset, pc, slots, response, errorLog>>
        ELSE IF IsNaN(slotEnd)
        THEN /\ response' = ErrorResponse("Invalid time value")
             /\ errorLog' = errorLog \cup {"Availability error"}
             /\ pc' = "done"
             /\ UNCHANGED <<cursor, dayOffset, slots>>
        ELSE /\ slots' = Append(slots, MakeSlot(slotStart, slotEnd, cfg))
             /\ cursor' = NextCursor(cursor, cfg)
             /\ UNCHANGED <<dayOffset, pc, response, errorLog>>
  /\ UNCHANGED <<leadVars, hookVars>>
  /\ UNCHANGED <<env, query, meetingsFile, notionPages, now, cfg, meetingsP, notionP,
                 intervalsByDay, readFailed, fetchFailed>>

\* the head of the cursor loop fails: the day is done
DayDone ==
  /\ pc = "cursorLoop"
  /\ ~CursorLoopHeadOf(cursor, workEnd, slots, cfg)
  /\ dayOffset' = dayOffset + 1
  /\ pc' = "dayLoop"
  /\ UNCHANGED <<leadVars, hookVars>>
  /\ UNCHANGED <<env, query, meetingsFile, notionPages, now, cfg, meetingsP, notionP,
                 intervalsByDay, cursor, slots, response, errorLog, readFailed,
                 fetchFailed>>

\* the head of the day loop fails: GET answers with the slots (202-208)
Respond ==
  /\ pc = "dayLoop"
  /\ ~DayLoopHeadOf(dayOffset, slots, cfg)
  /\ response' = SlotsResponse(now, cfg, slots)
  /\ pc' = "done"
  /\ UNCHANGED <<leadVars, hookVars>>
  /\ UNCHANGED <<env, query, meetingsFile, notionPages, now, cfg, meetingsP, notionP,
                 intervalsByDay, dayOffset, cursor, slots, errorLog, readFailed,
                 fetchFailed>>

Next ==
  \/ pc \in {"idle", "done"} /\ \E q \in Queries, t \in Nows : Receive(q, t)
  \/ \E ioError \in BOOLEAN : MeetingsSettle(ioError)
  \/ \E failure \in {"none", "config", "network"} : NotionSettle(failure)
  \/ Bucket
  \/ DayLoop
  \/ CursorLoop
  \/ DayDone
  \/ Respond

Spec == Init /\ [][Next]_vars

\* the generation is synchronous code: from the resolution of the await on,
\* each of its steps is taken as soon as it can be.  The calendar is empty
\* here: its intervals enter the loops as those of the meetings do.
InitLive == Init /\ notionPages = <<>>

SpecLive ==
  /\ InitLive /\ [][Next]_vars
  /\ WF_vars(Bucket) /\ WF_vars(DayLoop) /\ WF_vars(CursorLoop)
  /\ WF_vars(DayDone) /\ WF_vars(Respond)

----------------------------------------------------------------------------
(* The parameter resolution alone, over every kind of raw value *)

Huge == 1000 * 1000

\* absent, not numeric, zero, negative, huge, and a value inside every range
RawValues == {Absent, Text, Num(0), Num(0 - 5), Num(Huge), Num(45)}

AllQueries ==
  [durationMinutes : RawValues, slotMinutes : RawValues, days : RawValues,
   limit : RawValues, leadTimeMinutes : RawValues]

\* every numeric default unset or set to a string that is no number
AllEnvs ==
  {[EnvUnset EXCEPT !.tz = z,
                    !.AVAILABILITY_SLOT_MINUTES = a,
                    !.AVAILABILITY_DURATION_MINUTES = b,
                    !.AVAILABILITY_HORIZON_DAYS = c,
                    !.AVAILABILITY_MAX_SLOTS = d,
                    !.AVAILABILITY_LEAD_TIME_MINUTES = e] :
     z \in TimeZones, a \in {Absent, Text}, b \in {Absent, Text},
     c \in {Absent, Text}, d \in {Absent, Text}, e \in {Absent, Text}}

InitResolve ==
  /\ env \in AllEnvs
  /\ meetingsFile = [kind |-> "missing", meetings |-> <<>>]
  /\ notionPages = <<>>
  /\ query = NoQuery
  /\ pc = "idle"
  /\ now = 0
  /\ cfg = ResolveConfig(NoQuery, env)
  /\ meetingsP = NotStarted
  /\ notionP = NotStarted
  /\ intervalsByDay = <<>>
  /\ dayOffset = 0
  /\ cursor = 0
  /\ slots = <<>>
  /\ response = NoResponse
  /\ errorLog = {}
  /\ readFailed = FALSE
  /\ fetchFailed = FALSE
  /\ LeadsIdle /\ HookIdle

NextResolve ==
  /\ pc = "idle"
  /\ \E q \in AllQueries, t \in Nows : Receive(q, t)

SpecResolve == InitResolve /\ [][NextResolve]_vars

----------------------------------------------------------------------------
(* The engine over every kind of record the two sources can hold *)

\* most records of the meetings file in this specification
MaxStored == 2

\* meetings: 10:00-10:30 of day 1; 11:00 of day 1 with an end at 10:30; 12:00
\* of day 1 with an end that is no date; a start that is no date; no start.
\* The first and the last are records without source.
StoredRecords ==
  {[scheduledAt |-> Iso(1, 8 * 60), endAt |-> Iso(1, 8 * 60 + 30), source |-> "none",
    leadId |-> NoLead],
   [scheduledAt |-> Iso(1, 9 * 60), endAt |-> Iso(1, 8 * 60 + 30), source |-> "manual",
    leadId |-> NoLead],
   [scheduledAt |-> Iso(1, 10 * 60), endAt |-> NoDate, source |-> "vapi",
    leadId |-> NoLead],
   [scheduledAt |-> NoDate, endAt |-> Missing, source |-> "manual",
    leadId |-> NoLead],
   [scheduledAt |-> Missing, endAt |-> Missing, source |-> "none",
    leadId |-> NoLead]}

\* calendar pages: 10:00-10:30 of day 1; 14:00 of day 1 without an end; a
\* start that is no date
StoredPageRecords ==
  {[start |-> Iso(1, 8 * 60), endAt |-> Iso(1, 8 * 60 + 30)],
   [start |-> Iso(1, 12 * 60), endAt |-> Missing],
   [start |-> NoDate, endAt |-> Missing]}

StoreFiles ==
  {[kind |-> "missing", meetings |-> <<>>], [kind |-> "corrupt", meetings |-> <<>>]}
  \cup {[kind |-> "ok", meetings |-> ms] : ms \in SeqsUpTo(StoredRecords, MaxStored)}

InitStore ==
  /\ env \in {[EnvUnset EXCEPT !.tz = z] : z \in TimeZones}
  /\ query = NoQuery
  /\ meetingsFile \in StoreFiles
  /\ notionPages \in SeqsUpTo(StoredPageRecords, MaxEvents)
  /\ pc = "idle"
  /\ now = 0
  /\ cfg = ResolveConfig(NoQuery, env)
  /\ meetingsP = NotStarted
  /\ notionP = NotStarted
  /\ intervalsByDay = <<>>
  /\ dayOffset = 0
  /\ cursor = 0
  /\ slots = <<>>
  /\ response = NoResponse
  /\ errorLog = {}
  /\ readFailed = FALSE
  /\ fetchFailed = FALSE
  /\ LeadsIdle /\ HookIdle

\* requests without parameters
NextStore ==
  \/ pc \in {"idle", "done"} /\ \E t \in Nows : Receive(NoQuery, t)
  \/ \E ioError \in BOOLEAN : MeetingsSettle(ioError)
  \/ \E failure \in {"none", "config", "network"} : NotionSettle(failure)
  \/ Bucket
  \/ DayLoop
  \/ CursorLoop
  \/ DayDone
  \/ Respond

SpecStore == InitStore /\ [][NextStore]_vars

----------------------------------------------------------------------------
(* POST /api/meetings/create between availability requests *)

\* most meetings created through the route
MaxBooked == 2

\* readJson(placesPath, { places: {} })
ReadPlacesThrows(db) == db.kind = "corrupt"
ReadPlaces(db) == IF db.kind = "missing" THEN <<>> ELSE db.places

\* what the route answers: the checks of POST (26-32), then those of
\* createMeeting in their order (280-299, 317)
CreateStatus(leadId, scheduledAt, channel, places, file, ioError) ==
  IF leadId = NoLead \/ scheduledAt.k = "none" \/ channel = ""
  THEN Reply(400, "leadId, scheduledAt, and channel are required")
  ELSE IF channel \notin {"phone", "video", "in-person"}
  THEN Reply(400, "Invalid channel")
  ELSE IF ReadPlacesThrows(places)
  THEN Reply(500, "Unexpected token in JSON")
  ELSE IF leadId \notin DOMAIN ReadPlaces(places)
  THEN Reply(500, "Lead not found")
  ELSE IF ReadJsonThrows(file, ioError)
  THEN Reply(500, IF ioError THEN "EACCES: permission denied"
                  ELSE "Unexpected token in JSON")
  ELSE Reply(201, "")

\* the record createMeeting pushes: endAt ?? null, the source the caller names
NewMeeting(leadId, scheduledAt, source) ==
  [scheduledAt |-> scheduledAt, endAt |-> Missing, source |-> source,
   leadId |-> leadId]

\* meetingsDb.meetings.push(meeting); writeJson(meetingsPath, meetingsDb)
createMeetingFile(file, meeting) ==
  [kind |-> "ok", meetings |-> Append(ReadJson(file), meeting)]

\* the records of the file that the route has created
Booked(file) == SelectSeq(ReadJson(file), LAMBDA m : m.source = "vapi")

\* one request to the route, served between two availability requests
CreateMeeting(leadId, scheduledAt, channel, ioError) ==
  /\ pc = "done"
  /\ Len(Booked(meetingsFile)) < MaxBooked
  /\ reply' = CreateStatus(leadId, scheduledAt, channel, placesDb, meetingsFile, ioError)
  /\ meetingsFile' = IF reply'.status = 201
                     THEN createMeetingFile(meetingsFile,
                                            NewMeeting(leadId, scheduledAt, "vapi"))
                     ELSE meetingsFile
  /\ UNCHANGED <<env, query, notionPages, pc, now, cfg, meetingsP, notionP,
                 intervalsByDay, dayOffset, cursor, slots, response, errorLog,
                 readFailed, fetchFailed>>
  /\ UNCHANGED <<placesDb, callsStore, clock, hookVars>>

\* a lead of the places database, by the fields the handlers read or write
Place(name, phoneNumber, callStatus, notes, city, restaurantType) ==
  [name |-> name, phoneNumber |-> phoneNumber, callStatus |-> callStatus,
   notes |-> notes, city |-> city, restaurantType |-> restaurantType]

\* a field the record does not have
NoField == "(undefined)"

\* the lead the assistant is talking to
BookPlaces ==
  [kind |-> "ok",
   places |-> [k \in {"lead-a"} |->
                 Place("Chez A", "+33100000000", "Not called", NoField, NoField, NoField)]]

\* work hours unset, and a desk open round the clock
BookEnvs ==
  {[e EXCEPT !.tz = z] : z \in TimeZones, e \in
    {EnvUnset,
     [EnvUnset EXCEPT !.AVAILABILITY_START_HOUR = Num(0), !.AVAILABILITY_END_HOUR = Num(24)]}}

\* the one query of every request: three slots
BookQuery == [NoQuery EXCEPT !.limit = Num(3)]

\* requests at 09:30 and 22:00 local time of day 1
BookNows == {At(1, 7, 30), At(1, 20, 0)}

\* meeting files that hold no record of the route yet
BookFiles ==
  {f \in MeetingFiles : \A i \in 1..Len(f.meetings) : f.meetings[i].source # "vapi"}

InitBook ==
  /\ env \in BookEnvs
  /\ meetingsFile \in BookFiles
  /\ notionPages \in SeqsUpTo(NotionPageRecords, MaxEvents)
  /\ query = BookQuery
  /\ pc = "idle"
  /\ now = 0
  /\ cfg = ResolveConfig(BookQuery, env)
  /\ meetingsP = NotStarted
  /\ notionP = NotStarted
  /\ intervalsByDay = <<>>
  /\ dayOffset = 0
  /\ cursor = 0
  /\ slots = <<>>
  /\ response = NoResponse
  /\ errorLog = {}
  /\ readFailed = FALSE
  /\ fetchFailed = FALSE
  /\ placesDb \in {BookPlaces, [kind |-> "missing", places |-> <<>>]}
  /\ callsStore = [kind |-> "missing", calls |-> <<>>]
  /\ reply = Reply(0, "")
  /\ clock = 0
  /\ HookIdle

NextBook ==
  \/ pc \in {"idle", "done"} /\ \E t \in BookNows : Receive(BookQuery, t)
  \/ \E ioError \in BOOLEAN : MeetingsSettle(ioError)
  \/ \E failure \in {"none", "config", "network"} : NotionSettle(failure)
  \/ Bucket
  \/ DayLoop
  \/ CursorLoop
  \/ DayDone
  \/ Respond
  \/ /\ pc = "done"
     \* the assistant names the start of a slot of the last answer of GET
     /\ \E leadId \in {NoLead, "lead-a", "lead-b"},
           scheduledAt \in {response.slots[i].start : i \in 1..Len(response.slots)}
                             \cup {Missing},
           channel \in {"", "phone", "other"}, ioError \in BOOLEAN :
          CreateMeeting(leadId, scheduledAt, channel, ioError)

SpecBook == InitBook /\ [][NextBook]_vars

----------------------------------------------------------------------------
(* useCallQueue: the client call queue *)

\* most leads of the list, most calls of the component into the hook
MaxLeads == 3
MaxUserSteps == 3

\* phoneNumber: null
NoPhone == ""

\* the fields of a lead that the hook reads; the key is the lead's place in
\* the first list
Lead(key, phoneNumber, callStatus) ==
  [key |-> key, phoneNumber |-> phoneNumber, callStatus |-> callStatus]

\* a queue where every lead waits, whatever its callStatus
BuildQueueAllPending(ls) ==
  [i \in 1..Len(ls) |->
     [key |-> ls[i].key, phoneNumber |-> ls[i].phoneNumber,
      callStatus |-> ls[i].callStatus, status |-> "pending"]]

\* leads.map((lead) => ({ ...lead, status: ... })) (51-54, 76-80)
BuildQueue(ls) ==
  [i \in 1..Len(ls) |->
     [key |-> ls[i].key, phoneNumber |-> ls[i].phoneNumber,
      callStatus |-> ls[i].callStatus,
      status |-> IF ls[i].callStatus = "Not called" THEN "pending" ELSE "skipped"]]

\* queue.findIndex((lead, idx) => idx > after && lead.status === "pending"),
\* with places counted from 1 and 0 for the -1 of findIndex
FindPending(q, after) ==
  IF \E i \in 1..Len(q) : i > after /\ q[i].status = "pending"
  THEN CHOOSE i \in 1..Len(q) :
         /\ i > after /\ q[i].status = "pending"
         /\ \A j \in 1..Len(q) : (j > after /\ q[j].status = "pending") => i <= j
  ELSE 0

\* the updater of setQueue in updateLeadStatus (89-94)
updateLeadStatus(q, index, status) ==
  IF index < 1 \/ index > Len(q) THEN q ELSE [q EXCEPT ![index].status = status]

\* the hook's state as one record, for the functions below
HookState == [queue |-> queue, activeIndex |-> activeIndex, isRunning |-> isRunning,
              inflight |-> inflight, timers |-> timers]

\* advanceToNext of the render whose queue was q, run on the state st (98-107)
advanceToNext(st, q) ==
  LET nextIndex == FindPending(q, IF st.activeIndex = Null THEN 0 ELSE st.activeIndex)
  IN IF nextIndex = 0
     THEN [st EXCEPT !.isRunning = FALSE, !.activeIndex = Null]
     ELSE [st EXCEPT !.activeIndex = nextIndex]

\* runCall(index) up to its await, in the render of st: the timer and the
\* request keep the advanceToNext of this render, hence its queue (109-123)
runCall(st, index) ==
  IF index > Len(st.queue) \/ st.queue[index].status # "pending"
  THEN [st EXCEPT !.timers = Append(@, st.queue)]
  ELSE IF st.queue[index].phoneNumber = NoPhone
  THEN [st EXCEPT !.queue = updateLeadStatus(@, index, "skipped"),
                  !.timers = Append(@, st.queue)]
  ELSE [st EXCEPT !.queue = updateLeadStatus(@, index, "calling"),
                  !.inflight = Append(@, [index |-> index, key |-> st.queue[index].key,
                                          queue |-> st.queue])]

\* a run effect that does not look at isRunning
EffectAlways(st) ==
  IF st.activeIndex = Null THEN st
  ELSE IF st.activeIndex > Len(st.queue) THEN advanceToNext(st, st.queue)
  ELSE IF st.queue[st.activeIndex].status = "pending" THEN runCall(st, st.activeIndex)
  ELSE st

\* the run effect after a render of st (153-164); the render that follows
\* its own updates finds nothing to do
Effect(st) ==
  IF ~st.isRunning \/ st.activeIndex = Null THEN st
  ELSE IF st.activeIndex > Len(st.queue) THEN advanceToNext(st, st.queue)
  ELSE IF st.queue[st.activeIndex].status = "pending" THEN runCall(st, st.activeIndex)
  ELSE st

\* the state updates of a handler are rendered and the run effect follows
Commit(st) ==
  LET after == Effect(st)
  IN /\ queue' = after.queue
     /\ activeIndex' = after.activeIndex
     /\ isRunning' = after.isRunning
     /\ inflight' = after.inflight
     /\ timers' = after.timers

\* start() (134-141)
start ==
  /\ userSteps < MaxUserSteps
  /\ userSteps' = userSteps + 1
  /\ IF isRunning \/ FindPending(queue, 0) = 0
     THEN UNCHANGED <<queue, activeIndex, isRunning, inflight, timers>>
     ELSE Commit([HookState EXCEPT !.isRunning = TRUE,
                                   !.activeIndex = FindPending(queue, 0)])
  /\ UNCHANGED <<leads, engineVars, leadVars>>

\* stop() (143-146)
stop ==
  /\ userSteps < MaxUserSteps
  /\ userSteps' = userSteps + 1
  /\ Commit([HookState EXCEPT !.isRunning = FALSE, !.activeIndex = Null])
  /\ UNCHANGED <<leads, engineVars, leadVars>>

\* resetQueue() called by the component (74-86)
resetQueue ==
  /\ userSteps < MaxUserSteps
  /\ userSteps' = userSteps + 1
  /\ Commit([HookState EXCEPT !.queue = BuildQueue(leads), !.isRunning = FALSE,
                              !.activeIndex = Null])
  /\ UNCHANGED <<leads, engineVars, leadVars>>

\* the component passes a new leads array: the reset effect calls
\* resetQueue (148-151)
SetLeads(ls) ==
  /\ userSteps < MaxUserSteps
  /\ userSteps' = userSteps + 1
  /\ leads' = ls
  /\ Commit([HookState EXCEPT !.queue = BuildQueue(ls), !.isRunning = FALSE,
                              !.activeIndex = Null])
  /\ UNCHANGED <<engineVars, leadVars>>

RemoveAt(seq, i) == SubSeq(seq, 1, i - 1) \o SubSeq(seq, i + 1, Len(seq))

\* the request i is answered: runCall goes on after its await (123-129)
CallReturns(i, success) ==
  /\ i \in 1..Len(inflight)
  /\ Commit([HookState EXCEPT
               !.queue = updateLeadStatus(@, inflight[i].index,
                                          IF success THEN "success" ELSE "error"),
               !.inflight = RemoveAt(@, i),
               !.timers = Append(@, inflight[i].queue)])
  /\ UNCHANGED <<leads, userSteps, engineVars, leadVars>>

\* the oldest timer fires (all have the same delay): its advanceToNext runs
TimerFires ==
  /\ timers # <<>>
  /\ Commit(advanceToNext([HookState EXCEPT !.timers = Tail(@)], Head(timers)))
  /\ UNCHANGED <<leads, userSteps, engineVars, leadVars>>

\* lists of leads to call, leads without a phone number and leads already
\* called
LeadLists ==
  {[i \in 1..Len(ks) |-> Lead(i, ks[i].phoneNumber, ks[i].callStatus)] :
     ks \in SeqsUpTo({[phoneNumber |-> "+33100000000", callStatus |-> "Not called"],
                      [phoneNumber |-> NoPhone, callStatus |-> "Not called"],
                      [phoneNumber |-> "+33100000000", callStatus |-> "Interested"]},
                     MaxLeads)}

InitHook ==
  /\ env \in {[EnvUnset EXCEPT !.tz = z] : z \in TimeZones}
  /\ meetingsFile = [kind |-> "missing", meetings |-> <<>>]
  /\ notionPages = <<>>
  /\ query = NoQuery
  /\ pc = "idle"
  /\ now = 0
  /\ cfg = ResolveConfig(NoQuery, env)
  /\ meetingsP = NotStarted
  /\ notionP = NotStarted
  /\ intervalsByDay = <<>>
  /\ dayOffset = 0
  /\ cursor = 0
  /\ slots = <<>>
  /\ response = NoResponse
  /\ errorLog = {}
  /\ readFailed = FALSE
  /\ fetchFailed = FALSE
  /\ LeadsIdle
  /\ leads \in LeadLists
  /\ queue = BuildQueue(leads)
  /\ activeIndex = Null
  /\ isRunning = FALSE
  /\ inflight = <<>>
  /\ timers = <<>>
  /\ userSteps = 0

NextHook ==
  \/ start
  \/ stop
  \/ resetQueue
  \/ leads # <<>> /\ \E ls \in {leads, Tail(leads)} : SetLeads(ls)
  \/ \E i \in 1..Len(inflight), success \in BOOLEAN : CallReturns(i, success)
  \/ TimerFires

SpecHook == InitHook /\ [][NextHook]_vars

\* a timer set fires, and every request is answered
SpecHookLive ==
  /\ InitHook /\ [][NextHook]_vars
  /\ WF_vars(TimerFires)
  /\ WF_vars(\E i \in 1..Len(inflight), success \in BOOLEAN : CallReturns(i, success))

----------------------------------------------------------------------------
(* The handlers that write the lead stores: the Vapi webhook, PATCH
   /api/places-db and POST /api/calls/update-status *)

\* most webhook deliveries
MaxDeliveries == 3

CALL_STATUSES ==
  {"Not called", "Didn't answer", "Manager was not available", "Not interested",
   "Interested", "Meeting planned"}

callStatusSynonyms ==
  [k \in {"didn't answer", "didnt answer", "no answer", "manager was not available",
          "manager not available", "manager unavailable", "not interested",
          "uninterested", "interested", "interseted", "meeting planned"} |->
     CASE k \in {"didn't answer", "didnt answer", "no answer"} -> "Didn't answer"
       [] k \in {"manager was not available", "manager not available",
                 "manager unavailable"} -> "Manager was not available"
       [] k \in {"not interested", "uninterested"} -> "Not interested"
       [] k \in {"interested", "interseted"} -> "Interested"
       [] OTHER -> "Meeting planned"]

\* normalizeCallStatus (63-73); NoField is its null, and normalized is
\* value.trim().toLowerCase() of the strings the payloads below hold
normalizeCallStatus(value) ==
  LET normalized == CASE value = "No Answer" -> "no answer"
                      [] value = "Call went well" -> "call went well"
                      [] OTHER -> value
  IN IF value \in CALL_STATUSES THEN value
     ELSE IF value = NoField THEN NoField
     ELSE IF normalized \in DOMAIN callStatusSynonyms
     THEN callStatusSynonyms[normalized]
     ELSE NoField

\* extractCallStatus (75-92) of a payload without result and metadata.callStatus
extractCallStatus(payload) ==
  LET candidates == <<payload.callStatus, payload.state, payload.status, payload.summary>>
      found == {i \in 1..Len(candidates) : normalizeCallStatus(candidates[i]) # NoField}
  IN IF found = {} THEN NoField
     ELSE normalizeCallStatus(candidates[CHOOSE i \in found : \A j \in found : i <= j])

\* a webhook body: leadId is metadata.leadId, meeting is the scheduledAt of
\* metadata.meeting
Payload(id, callId, status, state, summary, callStatus, leadId, meeting) ==
  [id |-> id, callId |-> callId, status |-> status, state |-> state,
   summary |-> summary, callStatus |-> callStatus, leadId |-> leadId,
   meeting |-> meeting]

\* updateLeadCallStatus (121-133): the places file after it
updateLeadCallStatus(db, leadId, callStatus) ==
  IF ReadPlacesThrows(db) \/ leadId \notin DOMAIN ReadPlaces(db) THEN db
  ELSE IF db.places[leadId].callStatus = callStatus THEN db
  ELSE [kind |-> "ok", places |-> [db.places EXCEPT ![leadId].callStatus = callStatus]]

\* a store where every delivery adds a record
UpsertPush(calls, record) == Append(calls, record)

\* the record replaces that of its call id, with the id and createdAt of
\* the one it replaces, or is pushed (152-168)
Upsert(calls, record) ==
  LET existing == {i \in 1..Len(calls) : calls[i].vapiCallId = record.vapiCallId}
      existingIdx == CHOOSE i \in existing : \A j \in existing : i <= j
  IN IF existing = {} THEN Append(calls, record)
     ELSE [calls EXCEPT ![existingIdx] =
             [record EXCEPT !.id = calls[existingIdx].id,
                            !.createdAt = calls[existingIdx].createdAt]]

\* the stores and the clock as one record, for the functions below
Stores == [calls |-> callsStore, meetings |-> meetingsFile, places |-> placesDb,
           reply |-> reply, clock |-> clock]

\* body.id ?? body.callId (140)
CallIdOf(payload) == IF payload.id # NoField THEN payload.id ELSE payload.callId

\* POST of the webhook (135-234) on the stores st, at the next instant of
\* the clock, which is also the uuid of a new record
ProcessWebhook(payload, st) ==
  LET t == st.clock + 1
      vapiCallId == CallIdOf(payload)
      leadId == payload.leadId
      record == [id |-> t, leadId |-> leadId, vapiCallId |-> vapiCallId,
                 status |-> IF payload.status # NoField THEN payload.status
                            ELSE IF payload.state # NoField THEN payload.state
                            ELSE "unknown",
                 summary |-> payload.summary, createdAt |-> t, updatedAt |-> t]
      hasLead == leadId # NoField /\ leadId # ""
      tryMeeting == hasLead /\ payload.meeting.k # "none"
      listed == tryMeeting /\ ~listMeetingsThrows(st.meetings, FALSE)
      alreadyExists ==
        \E i \in 1..Len(listMeetings(st.meetings)) :
          /\ listMeetings(st.meetings)[i].leadId = leadId
          /\ listMeetings(st.meetings)[i].scheduledAt = payload.meeting
      meetingCreated ==
        /\ listed /\ ~alreadyExists
        /\ ~ReadPlacesThrows(st.places) /\ leadId \in DOMAIN ReadPlaces(st.places)
      targetStatus == IF meetingCreated THEN "Meeting planned" ELSE extractCallStatus(payload)
  IN IF vapiCallId = NoField \/ vapiCallId = ""
     THEN [st EXCEPT !.reply = Reply(400, "Missing call id"), !.clock = t]
     ELSE IF st.calls.kind = "corrupt"
     THEN [st EXCEPT !.reply = Reply(500, "Unexpected token in JSON"), !.clock = t]
     ELSE [calls |-> [kind |-> "ok",
                      calls |-> Upsert(IF st.calls.kind = "missing" THEN <<>>
                                       ELSE st.calls.calls, record)],
           meetings |-> IF meetingCreated
                        THEN createMeetingFile(listMeetingsFile(st.meetings),
                                               NewMeeting(leadId, payload.meeting, "vapi"))
                        ELSE IF listed THEN listMeetingsFile(st.meetings)
                        ELSE st.meetings,
           places |-> IF hasLead /\ targetStatus # NoField
                      THEN updateLeadCallStatus(st.places, leadId, targetStatus)
                      ELSE st.places,
           reply |-> Reply(200, ""),
           clock |-> t]

\* one delivery
Webhook(payload) ==
  /\ clock < MaxDeliveries
  /\ LET after == ProcessWebhook(payload, Stores)
     IN /\ callsStore' = after.calls
        /\ meetingsFile' = after.meetings
        /\ placesDb' = after.places
        /\ reply' = after.reply
        /\ clock' = after.clock
  /\ UNCHANGED <<env, query, notionPages, pc, now, cfg, meetingsP, notionP,
                 intervalsByDay, dayOffset, cursor, slots, response, errorLog,
                 readFailed, fetchFailed, hookVars>>

\* ensureDb (32-66): the places it returns and the file it leaves
ensureDb(db) ==
  IF db.kind # "ok"
  THEN [places |-> <<>>, file |-> [kind |-> "ok", places |-> <<>>]]
  ELSE LET normalized ==
             [k \in DOMAIN db.places |->
                Place(db.places[k].name, db.places[k].phoneNumber,
                      IF db.places[k].callStatus \in CALL_STATUSES
                      THEN db.places[k].callStatus ELSE "Not called",
                      NoField, NoField, NoField)]
       IN [places |-> normalized,
           file |-> IF \E k \in DOMAIN db.places : db.places[k].callStatus \notin CALL_STATUSES
                    THEN [kind |-> "ok", places |-> normalized]
                    ELSE db]

\* PATCH /api/places-db (117-145): the file it leaves and its answer
PatchPlacesDb(key, callStatus, db) ==
  IF key = "" THEN [file |-> db, reply |-> Reply(400, "Missing key")]
  ELSE IF callStatus \notin CALL_STATUSES
  THEN [file |-> db, reply |-> Reply(400, "Invalid callStatus")]
  ELSE IF key \notin DOMAIN ensureDb(db).places
  THEN [file |-> ensureDb(db).file, reply |-> Reply(404, "Place not found")]
  ELSE [file |-> [kind |-> "ok",
                  places |-> [ensureDb(db).places EXCEPT ![key].callStatus = callStatus]],
        reply |-> Reply(200, "")]

Patch(key, callStatus) ==
  /\ placesDb' = PatchPlacesDb(key, callStatus, placesDb).file
  /\ reply' = PatchPlacesDb(key, callStatus, placesDb).reply
  /\ UNCHANGED <<engineVars, callsStore, clock, hookVars>>

\* POST /api/calls/update-status (35-74)
UpdateStatus(leadId, wishStatus, notes) ==
  /\ IF leadId = ""
     THEN reply' = Reply(400, "leadId is required") /\ UNCHANGED placesDb
     ELSE IF wishStatus \notin CALL_STATUSES
     THEN reply' = Reply(400, "callStatus must be one of") /\ UNCHANGED placesDb
     ELSE IF ReadPlacesThrows(placesDb)
     THEN reply' = Reply(500, "Unexpected token in JSON") /\ UNCHANGED placesDb
     ELSE IF leadId \notin DOMAIN ReadPlaces(placesDb)
     THEN reply' = Reply(404, "Lead not found") /\ UNCHANGED placesDb
     ELSE /\ reply' = Reply(200, "")
          /\ placesDb' =
               [kind |-> "ok",
                places |-> [placesDb.places EXCEPT
                              ![leadId].callStatus = wishStatus,
                              ![leadId].notes = IF notes = NoField THEN @ ELSE notes]]
  /\ UNCHANGED <<engineVars, callsStore, clock, hookVars>>

\* deliveries (the meeting they plan is at 10:00 UTC of day 3): no call id; an empty id beside a callId; a callId only; a
\* call that planned a meeting and reports "Interested"; a state without a
\* lead; a second call whose summary names the outcome; a call of a lead
\* the database does not hold
Payloads ==
  {Payload(NoField, NoField, "ended", NoField, NoField, "Interested", "lead-a", Missing),
   Payload("", "call-1", "ended", NoField, NoField, NoField, "lead-a", Missing),
   Payload(NoField, "call-1", "ended", NoField, NoField, NoField, "lead-a", Missing),
   Payload("call-1", NoField, "ended", NoField, "Call went well", "Interested", "lead-a",
           Iso(3, 10 * 60)),
   Payload("call-1", NoField, NoField, "in-progress", NoField, NoField, NoField, Missing),
   Payload("call-2", NoField, "ended", NoField, "No Answer", NoField, "lead-a", Missing),
   Payload("call-2", NoField, "ended", NoField, NoField, NoField, "lead-x", Iso(3, 10 * 60))}

\* places files: none, one that does not parse, two leads of which one has
\* city and restaurantType and the other notes
LeadStores ==
  {[kind |-> "missing", places |-> <<>>],
   [kind |-> "corrupt", places |-> <<>>],
   [kind |-> "ok",
    places |-> [k \in {"lead-a", "lead-b"} |->
                  IF k = "lead-a"
                  THEN Place("Chez A", "+33100000000", "Not called", NoField, "Paris", "bistro")
                  ELSE Place("Chez B", NoPhone, "Interested", "asked for a menu",
                             NoField, NoField)]]}

InitLeads ==
  /\ env \in {[EnvUnset EXCEPT !.tz = z] : z \in TimeZones}
  /\ meetingsFile \in {[kind |-> "missing", meetings |-> <<>>],
                        [kind |-> "corrupt", meetings |-> <<>>]}
  /\ notionPages = <<>>
  /\ query = NoQuery
  /\ pc = "idle"
  /\ now = 0
  /\ cfg = ResolveConfig(NoQuery, env)
  /\ meetingsP = NotStarted
  /\ notionP = NotStarted
  /\ intervalsByDay = <<>>
  /\ dayOffset = 0
  /\ cursor = 0
  /\ slots = <<>>
  /\ response = NoResponse
  /\ errorLog = {}
  /\ readFailed = FALSE
  /\ fetchFailed = FALSE
  /\ placesDb \in LeadStores
  /\ callsStore \in {[kind |-> "missing", calls |-> <<>>],
                      [kind |-> "corrupt", calls |-> <<>>]}
  /\ reply = Reply(0, "")
  /\ clock = 0
  /\ HookIdle

NextLeads ==
  \/ \E payload \in Payloads : Webhook(payload)
  \/ \E key \in {"", "lead-a", "lead-x"}, callStatus \in {"Interested", "busy"} :
       Patch(key, callStatus)
  \/ \E leadId \in {"", "lead-b", "lead-x"}, wishStatus \in {"Not interested", "busy"},
        notes \in {NoField, "call back"} : UpdateStatus(leadId, wishStatus, notes)

SpecLeads == InitLeads /\ [][NextLeads]_vars

----------------------------------------------------------------------------
(* What GET answers from the join on, as one function of the intervals *)

RECURSIVE WalkCursor(_, _, _, _)
WalkCursor(ctx, d, cur, ss) ==
  LET we == WorkEndOf(ctx.t, d, ctx.c, ctx.tz)
      slotEnd == SlotEndOf(cur, ctx.c)
      bucket == GetBucket(ctx.byDay, dayKey(DayStartOf(ctx.t, d, ctx.tz), ctx.tz))
  IN IF ~CursorLoopHeadOf(cur, we, ss, ctx.c) THEN [slots |-> ss, threw |-> FALSE]
     ELSE IF PastWorkEnd(cur, slotEnd, we) THEN [slots |-> ss, threw |-> FALSE]
     ELSE IF TooEarly(cur, EarliestOf(ctx.t, ctx.c)) \/ overlaps(cur, slotEnd, bucket)
     THEN WalkCursor(ctx, d, NextCursor(cur, ctx.c), ss)
     ELSE IF IsNaN(slotEnd) THEN [slots |-> ss, threw |-> TRUE]
     ELSE WalkCursor(ctx, d, NextCursor(cur, ctx.c),
                     Append(ss, MakeSlot(cur, slotEnd, ctx.c)))

RECURSIVE WalkDays(_, _, _)
WalkDays(ctx, d, ss) ==
  IF ~DayLoopHeadOf(d, ss, ctx.c) THEN [slots |-> ss, threw |-> FALSE]
  ELSE IF SkipDayOf(ctx.t, d, ctx.c, ctx.tz) THEN WalkDays(ctx, d + 1, ss)
  ELSE LET r == WalkCursor(ctx, d, WorkStartOf(ctx.t, d, ctx.c, ctx.tz), ss)
       IN IF r.threw THEN r ELSE WalkDays(ctx, d + 1, r.slots)

AvailabilityFor(t, c, tz, ivs) ==
  LET r == WalkDays([t |-> t, c |-> c, tz |-> tz,
                     byDay |-> BuildIntervalsByDay(ivs, tz)], 0, <<>>)
  IN IF r.threw THEN ErrorResponse("Invalid time value")
     ELSE SlotsResponse(t, c, r.slots)

----------------------------------------------------------------------------
(* The generation without its early exits: no day is skipped, and a candidate
   that ends after workEnd is rejected like any other and the walk goes on *)

RECURSIVE ScanCursor(_, _, _, _)
ScanCursor(ctx, d, cur, ss) ==
  LET we == WorkEndOf(ctx.t, d, ctx.c, ctx.tz)
      slotEnd == SlotEndOf(cur, ctx.c)
      bucket == GetBucket(ctx.byDay, dayKey(DayStartOf(ctx.t, d, ctx.tz), ctx.tz))
  IN IF ~CursorLoopHeadOf(cur, we, ss, ctx.c) THEN [slots |-> ss, threw |-> FALSE]
     ELSE IF \/ Gt(slotEnd, we)
             \/ TooEarly(cur, EarliestOf(ctx.t, ctx.c))
             \/ overlaps(cur, slotEnd, bucket)
     THEN ScanCursor(ctx, d, NextCursor(cur, ctx.c), ss)
     ELSE IF IsNaN(slotEnd) THEN [slots |-> ss, threw |-> TRUE]
     ELSE ScanCursor(ctx, d, NextCursor(cur, ctx.c),
                     Append(ss, MakeSlot(cur, slotEnd, ctx.c)))

RECURSIVE ScanDays(_, _, _)
ScanDays(ctx, d, ss) ==
  IF ~DayLoopHeadOf(d, ss, ctx.c) THEN [slots |-> ss, threw |-> FALSE]
  ELSE LET r == ScanCursor(ctx, d, WorkStartOf(ctx.t, d, ctx.c, ctx.tz), ss)
       IN IF r.threw THEN r ELSE ScanDays(ctx, d + 1, r.slots)

ScanAvailabilityFor(t, c, tz, ivs) ==
  LET r == ScanDays([t |-> t, c |-> c, tz |-> tz,
                     byDay |-> BuildIntervalsByDay(ivs, tz)], 0, <<>>)
  IN IF r.threw THEN ErrorResponse("Invalid time value")
     ELSE SlotsResponse(t, c, r.slots)

----------------------------------------------------------------------------
(* Properties *)

TypeOK ==
  /\ pc \in {"idle", "fetching", "dayLoop", "cursorLoop", "done"}
  /\ response.status \in {0, 200, 500}

\* the busy intervals built for the request
RequestIntervals == meetingsP.value \o notionP.value

SlotStart(slot) == DateParse(slot.start)
SlotEnd(slot) == DateParse(slot.end)

\* C1: no returned slot intersects, as half-open ranges of instants, any busy
\* interval built for the request, whatever day the interval starts on
C1_NoSlotOverlapsBusy ==
  response.status = 200 =>
    \A i \in 1..Len(response.slots) : \A j \in 1..Len(RequestIntervals) :
      ~(SlotStart(response.slots[i]) < RequestIntervals[j].end
        /\ SlotEnd(response.slots[i]) > RequestIntervals[j].start)

\* C2: every returned slot starts at or after now + minLeadMinutes
C2_LeadTimeFloor ==
  response.status = 200 =>
    \A i \in 1..Len(response.slots) :
      Ge(SlotStart(response.slots[i]), Plus(now, cfg.minLeadMinutes))

InWorkWindow(slot, d) ==
  /\ Ge(SlotStart(slot), WorkStartOf(now, d, cfg, env.tz))
  /\ Le(SlotEnd(slot), WorkEndOf(now, d, cfg, env.tz))

C6_WithinWorkHours ==
  \A i \in 1..Len(slots) :
    /\ ~IsNaN(cfg.horizonDays)
    /\ \E d \in 0..(cfg.horizonDays - 1) : InWorkWindow(slots[i], d)

\* the walk of a day ended at a candidate that would pass workEnd: a slot of
\* the response ends 15 minutes before workEnd, the next cursor position, 30
\* minutes later, is not offered, and the next slot is of the day after
C6_LastCandidateRejected ==
  /\ pc = "done" /\ response.status = 200
  /\ cfg.durationMinutes = 45 /\ cfg.slotMinutes = 30
  /\ \E i \in 1..(Len(response.slots) - 1) : \E d \in 0..(cfg.horizonDays - 1) :
       /\ SlotEnd(response.slots[i]) = WorkEndOf(now, d, cfg, env.tz) - 15
       /\ InWorkWindow(response.slots[i + 1], d + 1)

\* C7: with a workEndHour that is not greater than workStartHour the request
\* ends with status 500 and without a slot list
C7_InvalidHoursRejected ==
  (pc = "done" /\ ~Gt(cfg.workEndHour, cfg.workStartHour)) =>
    (response.status = 500 /\ ~response.hasSlots)

\* C8: when the Notion fetch fails and the meetings are read, GET answers
\* what the generation gives for the meeting intervals alone
C8_CalendarFailureDegrades ==
  (pc = "done" /\ fetchFailed /\ ~readFailed) =>
    response = AvailabilityFor(now, cfg, env.tz, meetingsP.value)

\* the calendar holds an event that would have blocked a slot that is offered
C8_FailedCalendarIgnored ==
  /\ pc = "done" /\ fetchFailed /\ response.status = 200
  /\ meetingsP.value # <<>>
  /\ \E i \in 1..Len(response.slots) :
       overlaps(SlotStart(response.slots[i]), SlotEnd(response.slots[i]),
                NotionIntervals(fetchNotionEvents(notionPages)))

\* C9: when the read of the meeting store fails, the request ends with
\* status 500, an error message and no slot list
C9_MeetingFailureFatal ==
  readFailed =>
    /\ pc = "done"
    /\ response.status = 500
    /\ response.error # ""
    /\ ~response.hasSlots
    /\ response.slots = <<>>

C9_FailedWithCalendarLoaded ==
  /\ readFailed
  /\ notionP.state = "fulfilled" /\ notionP.value # <<>>

\* C10: the resolved parameters a request uses lie in their ranges
C10_ResolvedInRange ==
  pc # "idle" =>
    /\ cfg.durationMinutes \in 15..240
    /\ cfg.slotMinutes \in 5..120
    /\ cfg.horizonDays \in 1..30
    /\ cfg.slotLimit \in 1..200
    /\ cfg.minLeadMinutes \in 0..(24 * 60)

\* C11: a raw value that is a valid number is clamped into the range of its
\* parameter and used (leadTimeMinutes=0 gives minLeadMinutes 0,
\* durationMinutes=0 gives 15); the fallback is used only for a raw value that
\* is absent or no number
C11_ValidNumbersUsed ==
  pc # "idle" =>
    /\ query.durationMinutes.k = "num" =>
         cfg.durationMinutes = MathMin(MathMax(query.durationMinutes.n, 15), 240)
    /\ query.slotMinutes.k = "num" =>
         cfg.slotMinutes = MathMin(MathMax(query.slotMinutes.n, 5), 120)
    /\ query.days.k = "num" =>
         cfg.horizonDays = MathMin(MathMax(query.days.n, 1), 30)
    /\ query.limit.k = "num" =>
         cfg.slotLimit = MathMin(MathMax(query.limit.n, 1), 200)
    /\ query.leadTimeMinutes.k = "num" =>
         cfg.minLeadMinutes = MathMin(MathMax(query.leadTimeMinutes.n, 0), 24 * 60)

\* C12: a candidate that fits the work window and the lead time is rejected
\* exactly when some interval of its day's bucket has slotStart < end and
\* slotEnd > start; with work 08:00-21:00, 30 / 30 minutes, lead 0, a request
\* at 09:30 and the one meeting 10:00-10:30, 09:30-10:00 and 10:30-11:00 are
\* offered and 10:00-10:30 is not
C12_OverlapsHalfOpen ==
  /\ [][(/\ pc = "cursorLoop" /\ pc' = "cursorLoop" /\ cursor' # cursor
         /\ ~Lt(cursor, Plus(now, cfg.minLeadMinutes)))
        => ((slots' = slots) <=>
              \E i \in 1..Len(GetBucket(intervalsByDay, dayKey(cursor, env.tz))) :
                LET iv == GetBucket(intervalsByDay, dayKey(cursor, env.tz))[i]
                IN cursor < iv.end /\ Plus(cursor, cfg.durationMinutes) > iv.start)]_vars
  /\ []((/\ pc = "done" /\ response.status = 200
          /\ now = At(1, 7, 30)
          /\ cfg = [durationMinutes |-> 30, slotMinutes |-> 30, horizonDays |-> 7,
                    slotLimit |-> 20, minLeadMinutes |-> 0,
                    workStartHour |-> 8, workEndHour |-> 21]
          /\ RequestIntervals =
               <<[start |-> At(1, 8, 0), end |-> At(1, 8, 30), source |-> "meeting"]>>)
         => /\ response.slots[1] = [start |-> Iso(1, 7 * 60 + 30), end |-> Iso(1, 8 * 60),
                                    durationMinutes |-> 30]
            /\ response.slots[2] = [start |-> Iso(1, 8 * 60 + 30), end |-> Iso(1, 9 * 60),
                                    durationMinutes |-> 30])

\* a returned slot ends where a busy interval starts and the next returned
\* slot starts where it ends
C12_TouchingOffered ==
  /\ pc = "done" /\ response.status = 200 /\ now = At(1, 7, 30)
  /\ cfg.minLeadMinutes = 0 /\ cfg.slotMinutes = 30 /\ cfg.durationMinutes = 30
  /\ cfg.workStartHour = 8 /\ cfg.workEndHour = 21
  /\ Len(RequestIntervals) = 1
  /\ \E j \in 1..Len(RequestIntervals) : \E i \in 1..(Len(response.slots) - 1) :
       /\ SlotEnd(response.slots[i]) = RequestIntervals[j].start
       /\ SlotStart(response.slots[i + 1]) = RequestIntervals[j].end

\* C13: with one record of the meetings file whose start is missing or no
\* date, and no failure of the read itself, GET answers what the generation
\* gives for the intervals of the other records
C13_MalformedRecordDropped ==
  (/\ pc = "done"
   /\ meetingsFile.kind = "ok"
   /\ Cardinality({i \in 1..Len(meetingsFile.meetings) :
                     toDate(meetingsFile.meetings[i].scheduledAt) = Null}) = 1
   /\ response.error # listMeetingsError(meetingsFile, TRUE))
  => /\ response.status = 200
     /\ response = AvailabilityFor(now, cfg, env.tz,
                      MeetingIntervals(listMeetings(meetingsFile)) \o notionP.value)

\* C14: each source maps its records alike: no interval for a start that does
\* not parse, otherwise the parsed start and the parsed end, or start + 60
\* minutes when the end is missing or does not parse; the day index holds the
\* meeting intervals followed by the calendar intervals, none removed
C14_AdaptersMapAlike ==
  LET Built(starts, ends, source) ==
        LET keep == SelectSeq([i \in 1..Len(starts) |-> i],
                              LAMBDA i : starts[i].k = "iso")
        IN [j \in 1..Len(keep) |->
              [start |-> DateParse(starts[keep[j]]),
               end |-> IF ends[keep[j]].k = "iso" THEN DateParse(ends[keep[j]])
                       ELSE DateParse(starts[keep[j]]) + 60,
               source |-> source]]
      ms == listMeetings(meetingsFile)
      fromMeetings == Built([i \in 1..Len(ms) |-> ms[i].scheduledAt],
                            [i \in 1..Len(ms) |-> ms[i].endAt], "meeting")
      fromCalendar == IF fetchFailed THEN <<>>
                      ELSE Built([i \in 1..Len(notionPages) |-> notionPages[i].start],
                                 [i \in 1..Len(notionPages) |-> notionPages[i].endAt],
                                 "notion")
      merged == fromMeetings \o fromCalendar
  IN /\ meetingsP.state = "fulfilled" => meetingsP.value = fromMeetings
     /\ notionP.state = "fulfilled" => notionP.value = fromCalendar
     /\ pc \in {"dayLoop", "cursorLoop"} \/ response.status = 200 =>
          /\ DOMAIN intervalsByDay = {dayKey(merged[i].start, env.tz) : i \in 1..Len(merged)}
          /\ \A key \in DOMAIN intervalsByDay :
               intervalsByDay[key] =
                 SelectSeq(merged, LAMBDA iv : dayKey(iv.start, env.tz) = key)

\* the index holds the same interval from both sources, the meeting's first,
\* and an interval with a defaulted end
C14_DuplicateAndDefaulted ==
  /\ pc = "done" /\ response.status = 200
  /\ Len(RequestIntervals) = 3 /\ Len(meetingsFile.meetings) + Len(notionPages) = 3
  /\ \E key \in DOMAIN intervalsByDay : \E i, j, k \in 1..Len(intervalsByDay[key]) :
       /\ i < j
       /\ intervalsByDay[key][i].source = "meeting"
       /\ intervalsByDay[key][j].source = "notion"
       /\ intervalsByDay[key][i].start = intervalsByDay[key][j].start
       /\ intervalsByDay[key][i].end = intervalsByDay[key][j].end
       /\ intervalsByDay[key][k].end = intervalsByDay[key][k].start + 60

\* C15: every busy interval of the day index has start < end
C15_IntervalsWellFormed ==
  \A key \in DOMAIN intervalsByDay : \A i \in 1..Len(intervalsByDay[key]) :
    intervalsByDay[key][i].start < intervalsByDay[key][i].end

\* C16: the returned list is the first slotLimit, in ascending order of start,
\* of all candidates workStart(d) + k * slotMinutes, d below horizonDays, that
\* end at or before workEnd(d), start at or after now + minLeadMinutes and
\* overlap no interval of the bucket of day d
C16_FirstQualifyingCandidates ==
  LET candidates ==
        {c \in {Plus(WorkStartOf(now, d, cfg, env.tz),
                     IF IsNaN(cfg.slotMinutes) THEN NaN ELSE k * cfg.slotMinutes) :
                  d \in 0..(IF IsNaN(cfg.horizonDays) THEN 0 ELSE cfg.horizonDays) - 1,
                  k \in 0..(MinutesPerDay \div 5)} :
           \E d \in 0..(cfg.horizonDays - 1) :
             /\ Ge(c, WorkStartOf(now, d, cfg, env.tz))
             /\ Le(Plus(c, cfg.durationMinutes), WorkEndOf(now, d, cfg, env.tz))
             /\ Ge(c, Plus(now, cfg.minLeadMinutes))
             /\ \A i \in 1..Len(GetBucket(intervalsByDay, dayKey(c, env.tz))) :
                  LET iv == GetBucket(intervalsByDay, dayKey(c, env.tz))[i]
                  IN ~(c < iv.end /\ Plus(c, cfg.durationMinutes) > iv.start)}
      returned == {SlotStart(response.slots[i]) : i \in 1..Len(response.slots)}
  IN response.status = 200 =>
       /\ \A i \in 1..(Len(response.slots) - 1) :
            SlotStart(response.slots[i]) < SlotStart(response.slots[i + 1])
       /\ \A i \in 1..Len(response.slots) :
            SlotEnd(response.slots[i]) = SlotStart(response.slots[i]) + cfg.durationMinutes
       /\ returned \subseteq candidates
       /\ \A c \in candidates \ returned : \A r \in returned : r < c
       /\ Le(Len(response.slots), cfg.slotLimit)
       /\ candidates \ returned # {} => Len(response.slots) = cfg.slotLimit

\* C17: GET answers what a generation without the skip of a day and without
\* the break at workEnd answers: one that walks every cursor position of
\* every day and rejects the candidates one by one
C17_EarlyExitsArePure ==
  (pc = "done" /\ meetingsP.state = "fulfilled") =>
    response = ScanAvailabilityFor(now, cfg, env.tz, RequestIntervals)

\* the day of the request was skipped, and a later day's walk was broken at
\* the candidate after a slot that ends 15 minutes before workEnd
C17_SkippedAndBroken ==
  /\ pc = "done" /\ response.status = 200
  /\ SkipDayOf(now, 0, cfg, env.tz)
  /\ cfg.durationMinutes = 45 /\ cfg.slotMinutes = 30
  /\ \E i \in 1..(Len(response.slots) - 1) :
       /\ SlotEnd(response.slots[i]) = WorkEndOf(now, 1, cfg, env.tz) - 15
       /\ InWorkWindow(response.slots[i + 1], 2)

\* C18: both fetches are started by the same step, the day index is built only
\* when both have resolved, and what GET answers is a function of the store,
\* the calendar, now and the configuration, whichever fetch completed first
C18_JoinedBeforeBucketing ==
  LET merged ==
        MeetingIntervals(listMeetings(meetingsFile))
        \o (IF fetchFailed THEN <<>>
            ELSE NotionIntervals(fetchNotionEvents(notionPages)))
  IN /\ pc = "fetching" => meetingsP.state # "none" /\ notionP.state # "none"
     /\ pc \in {"dayLoop", "cursorLoop"} =>
          /\ meetingsP.state = "fulfilled" /\ notionP.state = "fulfilled"
          /\ intervalsByDay = BuildIntervalsByDay(merged, env.tz)
     /\ (pc = "done" /\ meetingsP.state = "fulfilled") =>
          /\ notionP.state = "fulfilled"
          /\ response = AvailabilityFor(now, cfg, env.tz, merged)

\* the calendar fetch has completed with an event while the read of a
\* meetings file that holds a meeting is still under way
C18_CalendarFirst ==
  /\ pc = "fetching"
  /\ notionP.state = "fulfilled" /\ notionP.value # <<>>
  /\ meetingsP.state = "pending"
  /\ MeetingIntervals(listMeetings(meetingsFile)) # <<>>

\* C19 as stated: for every sub-collection I of the intervals J of the request,
\* every slot returned for J is returned for I, and J twice gives what J gives
C19_MoreBusyNeverEnlarges ==
  LET J == RequestIntervals
      Sub(S) == LET kept == SelectSeq([i \in 1..Len(J) |-> i], LAMBDA i : i \in S)
                IN [j \in 1..Len(kept) |-> J[kept[j]]]
      For(I) == AvailabilityFor(now, cfg, env.tz, I).slots
  IN response.status = 200 =>
       /\ \A S \in SUBSET (1..Len(J)) :
            LET forI == For(Sub(S))
            IN \A i \in 1..Len(response.slots) :
                 \E j \in 1..Len(forI) : forI[j] = response.slots[i]
       /\ For(J \o J) = response.slots

\* C19, with the cut at slotLimit: for every sub-collection I of the intervals
\* J of the request, every slot returned for J overlaps no interval of I, and
\* is returned for I unless the list for I holds slotLimit slots that all
\* start before it; J twice gives what J gives
C19_MoreBusyNeverFrees ==
  LET J == RequestIntervals
      Sub(S) == LET kept == SelectSeq([i \in 1..Len(J) |-> i], LAMBDA i : i \in S)
                IN [j \in 1..Len(kept) |-> J[kept[j]]]
      For(I) == AvailabilityFor(now, cfg, env.tz, I).slots
  IN response.status = 200 =>
       /\ \A S \in SUBSET (1..Len(J)) :
            LET forI == For(Sub(S))
            IN \A i \in 1..Len(response.slots) :
                 /\ \A k \in S :
                      dayKey(J[k].start, env.tz)
                        = dayKey(SlotStart(response.slots[i]), env.tz)
                      => ~(SlotStart(response.slots[i]) < J[k].end
                           /\ SlotEnd(response.slots[i]) > J[k].start)
                 /\ \/ \E j \in 1..Len(forI) : forI[j] = response.slots[i]
                    \/ /\ Len(forI) = cfg.slotLimit
                       /\ \A j \in 1..Len(forI) :
                            SlotStart(forI[j]) < SlotStart(response.slots[i])
       /\ For(J \o J) = response.slots

\* with one interval less a slot is returned that the request does not
\* return, and the request returns a slot that is cut off without it
C19_ShrunkAndShifted ==
  LET J == RequestIntervals
      For(I) == AvailabilityFor(now, cfg, env.tz, I).slots
      forI == IF J = <<>> THEN <<>> ELSE For(Tail(J))
  IN /\ pc = "done" /\ response.status = 200 /\ Len(J) >= 2
     /\ \E j \in 1..Len(forI) :
          \A i \in 1..Len(response.slots) : response.slots[i] # forI[j]
     /\ \E i \in 1..Len(response.slots) :
          \A j \in 1..Len(forI) : response.slots[i] # forI[j]

\* C20: no step of an availability request changes the meetings file or the
\* calendar
C20_StoresUntouched ==
  [][meetingsFile' = meetingsFile /\ notionPages' = notionPages]_vars

\* listMeetings has returned records that differ, sanitized, from those of
\* the file
C20_SanitizedButNotWritten ==
  /\ pc = "done" /\ response.status = 200
  /\ meetingsP.state = "fulfilled" /\ meetingsP.value # <<>>
  /\ \E i \in 1..Len(meetingsFile.meetings) :
       sanitizeMeeting(meetingsFile.meetings[i]) # meetingsFile.meetings[i]

\* C21: the day loop runs at most horizonDays times, and once both fetches
\* have resolved the request is answered
C21_GenerationTerminates ==
  /\ [](pc \in {"dayLoop", "cursorLoop"} =>
          IF IsNaN(cfg.horizonDays) THEN dayOffset = 0
          ELSE dayOffset <= cfg.horizonDays)
  /\ (pc = "fetching" /\ PromiseAll(meetingsP, notionP) = "fulfilled") ~> (pc = "done")

\* a request answered after the walk of every day of the horizon
C21_HorizonExhausted ==
  /\ pc = "done" /\ response.status = 200
  /\ dayOffset = cfg.horizonDays
  /\ Len(response.slots) > 0

\* C22: an availability response never holds a slot that overlaps the hour
\* from the scheduledAt of a meeting created through the route before the
\* request, the scheduledAt being the start of a slot offered earlier
C22_BookedNeverOffered ==
  [][(pc = "dayLoop" /\ pc' = "done" /\ response'.status = 200) =>
       \A b \in 1..Len(Booked(meetingsFile)) : \A i \in 1..Len(response'.slots) :
         ~(SlotStart(response'.slots[i])
             < addMinutes(DateParse(Booked(meetingsFile)[b].scheduledAt), 60)
           /\ SlotEnd(response'.slots[i])
             > DateParse(Booked(meetingsFile)[b].scheduledAt))]_vars

\* C23: at most one queue entry is "calling" and at most one call request is
\* in flight, at any time
C23_OneCallAtATime ==
  /\ Cardinality({i \in 1..Len(queue) : queue[i].status = "calling"}) <= 1
  /\ Len(inflight) <= 1

\* C24: an entry becomes "success" or "error" only in a step in which a
\* request sent for the lead of that entry is answered
C24_OutcomeOnCalledLead ==
  [][\A j \in 1..Len(queue') :
       (/\ queue'[j].status \in {"success", "error"}
        /\ (j > Len(queue) \/ queue[j] # queue'[j]))
       => \E i \in 1..Len(inflight) :
            /\ inflight' = RemoveAt(inflight, i)
            /\ inflight[i].key = queue'[j].key]_vars

\* C27: once the queue runs and the component calls neither stop() nor
\* resetQueue() any more, it comes to rest with no lead pending or calling
C27_QueueDrains ==
  (isRunning /\ userSteps = MaxUserSteps)
    ~> (/\ ~isRunning
        /\ activeIndex = Null
        /\ \A i \in 1..Len(queue) : queue[i].status \notin {"pending", "calling"})

\* C28: a request is sent only from the pending entry of a lead with a phone
\* number whose callStatus was "Not called" at the build, the entry becomes
\* "calling", an entry without phone number is skipped without a request,
\* and only a reset makes an entry pending again
C28_OnlyPendingLeadsCalled ==
  [][/\ Len(inflight') > Len(inflight) =>
          /\ Len(inflight') = Len(inflight) + 1
          /\ inflight'[Len(inflight')].index \in 1..Len(queue)
          /\ queue[inflight'[Len(inflight')].index].key = inflight'[Len(inflight')].key
          /\ queue[inflight'[Len(inflight')].index].status = "pending"
          /\ queue[inflight'[Len(inflight')].index].callStatus = "Not called"
          /\ queue[inflight'[Len(inflight')].index].phoneNumber # NoPhone
          /\ queue'[inflight'[Len(inflight')].index].status = "calling"
     /\ \A j \in 1..Len(queue') :
          /\ (queue'[j].status = "calling" /\ j <= Len(queue) /\ queue[j].status # "calling")
               => Len(inflight') > Len(inflight) /\ inflight'[Len(inflight')].index = j
          /\ (queue'[j].status = "pending" /\ (j > Len(queue) \/ queue[j].status # "pending"))
               => queue' = BuildQueue(leads') /\ userSteps' = userSteps + 1
     /\ \A i \in 1..Len(inflight') : inflight'[i].queue[inflight'[i].index].phoneNumber # NoPhone]_vars

\* a request is in flight while a lead without phone number and a lead
\* called earlier are skipped
C28_CalledAndSkipped ==
  /\ Len(inflight) = 1
  /\ \E i, j \in 1..Len(queue) :
       /\ queue[i].status = "skipped" /\ queue[i].phoneNumber = NoPhone
       /\ queue[i].callStatus = "Not called" /\ i < inflight[1].index
       /\ queue[j].status = "skipped" /\ queue[j].callStatus = "Interested"

C25_RedeliveryKeepsStatus ==
  \A payload \in Payloads :
    LET once == ProcessWebhook(payload, Stores)
        twice == ProcessWebhook(payload, once)
    IN /\ twice.places.kind = once.places.kind
       /\ payload.leadId \in DOMAIN ReadPlaces(once.places) =>
            twice.places.places[payload.leadId].callStatus
              = once.places.places[payload.leadId].callStatus

\* C26: a PATCH that answers 200 leaves every lead in the file, with every
\* field but the callStatus of the lead it names as it was
C26_PatchKeepsOtherFields ==
  \A key \in {"lead-a", "lead-b"}, callStatus \in CALL_STATUSES :
    LET after == PatchPlacesDb(key, callStatus, placesDb)
    IN after.reply.status = 200 =>
         \A k \in DOMAIN ReadPlaces(placesDb) :
           /\ k \in DOMAIN after.file.places
           /\ after.file.places[k] =
                IF k = key THEN [placesDb.places[k] EXCEPT !.callStatus = callStatus]
                ELSE placesDb.places[k]

\* C29: the calls store holds one record per call id; a delivery for a known
\* call id replaces status, summary and updatedAt of its record and keeps
\* id and createdAt, the other records and their number; a delivery without
\* a call id is answered 400 and leaves every store as it was
C29_OneRecordPerCall ==
  /\ \A i, j \in 1..Len(callsStore.calls) :
       callsStore.calls[i].vapiCallId = callsStore.calls[j].vapiCallId => i = j
  /\ \A payload \in Payloads :
       LET after == ProcessWebhook(payload, Stores)
       IN /\ (payload.id = NoField /\ payload.callId = NoField) =>
               /\ after.reply.status = 400
               /\ after.calls = callsStore /\ after.meetings = meetingsFile
               /\ after.places = placesDb
          /\ \A i \in 1..Len(callsStore.calls) :
               IF callsStore.calls[i].vapiCallId = CallIdOf(payload)
               THEN /\ Len(after.calls.calls) = Len(callsStore.calls)
                    /\ after.calls.calls[i].id = callsStore.calls[i].id
                    /\ after.calls.calls[i].createdAt = callsStore.calls[i].createdAt
                    /\ after.calls.calls[i].vapiCallId = CallIdOf(payload)
                    /\ after.calls.calls[i].updatedAt = clock + 1
                    /\ after.calls.calls[i].summary = payload.summary
                    /\ after.calls.calls[i].status =
                         (IF payload.status # NoField THEN payload.status
                          ELSE IF payload.state # NoField THEN payload.state
                          ELSE "unknown")
               ELSE after.calls.calls[i] = callsStore.calls[i]

\* call-1 was delivered twice with different contents, and the last
\* delivery, without a call id, was refused
C29_RedeliveredThenRefused ==
  /\ reply.status = 400 /\ clock = 3
  /\ Len(callsStore.calls) = 1
  /\ callsStore.calls[1].createdAt = 1 /\ callsStore.calls[1].updatedAt = 2
  /\ callsStore.calls[1].status = "in-progress"

====
